---- MODULE Spec2Model ----
(***************************************************************************)
(* A model of the two-tier proxy: the Worker (worker/main.go: chunk store, *)
(* admission, executor pool, cancellation registry, HTTP handlers) and the *)
(* Gateway's streaming poll loop (unnamed/part_000).                       *)
(*                                                                         *)
(* Every access to shared state (one Redis command, one critical section   *)
(* of Worker.mu, one channel operation) is one atomic step; goroutines     *)
(* interleave between such steps.                                          *)
(***************************************************************************)
EXTENDS Integers, Sequences, FiniteSets, TLC

\* ------------------------------------------------------------------ bounds

\* WORKER_CONCURRENCY: the number N of executor goroutines.
Concurrency == 1

\* Lines the inference backend sends on one response body at most.
MaxLines == 3

\* Store commands that may fail in one run.
MaxFaults == 1

\* Failed polls of the Gateway in one request.
MaxPollFails == 2

\* The longest chunk list and the largest seq of a poll response fed to the
\* Gateway directly, and how often one list is fed in a row.
MaxReplayLen == 2
MaxReplaySeq == 3
MaxPasses == 2
\* the largest from_seq a client of GET /jobs/{id}/events sends
MaxFromSeq == 1
\* consecutive failed polls are counted up to this many
MaxStreak == 7

\* GetChunks stops after this many chunks. The source has 1000; the model
\* scales the cap down so that a log longer than one response is in reach.
ChunkCap == 2

\* ------------------------------------------------------------- constants

StatusQueued == "queued"
StatusRunning == "running"
StatusCompleted == "completed"
StatusFailed == "failed"
StatusCancelled == "cancelled"

\* The metadata hash of a job id that has no key in the store.
NoMeta == "none"

\* NewWorker: maxQueueSize := concurrency * 2, the capacity of the channel.
maxQueueSize == Concurrency * 2

Executors == 1 .. Concurrency

\* Job ids (uuid.New() never repeats): one per POST /jobs request.
Jobs == 1 .. (maxQueueSize + 1)

\* Message.Content of a backend record.
Deltas == {"", "x"}

\* ------------------------------------------------------------------ state

VARIABLES
    meta,        \* store: job:{id}:meta, its status field (NoMeta: no key)
    chunks,      \* store: job:{id}:chunks, the list of ChunkData
    seqctr,      \* store: job:{id}:seq
    ttl,         \* store: number of SetTTL calls applied to the job's keys
    queue,       \* Worker.queue, the buffered channel
    activeJobs,  \* Worker.activeJobs
    queuedJobs,  \* Worker.queuedJobs
    cancelled,   \* Worker.cancelled
    pc,          \* executor goroutine: its position in run / processJob
    ejob,        \* executor goroutine: jobID
    eline,       \* executor goroutine: the line scanner.Scan returned
    eseq,        \* executor goroutine: seq
    eerr,        \* executor goroutine: errorMsg of finishJobWithError
    hpc,         \* CreateJob handler of a request: its position
    hload,       \* CreateJob handler: currentActive + currentQueued
    cpc,         \* CancelJob handler of a job id: its position
    linesLeft,   \* backend: lines it may still send for a job
    faultsLeft,  \* store: commands that may still fail
    atCancel,    \* history: non-error chunks in the log when Cancel(id) ran
    atObserve,   \* history: non-error chunks in the log when isCancelled(id) was true
    gpc,         \* Gateway request: its position in handleStreamingChat
    lastSeq,     \* Gateway request: lastSeq
    retryDelay,  \* Gateway request: retryDelay
    frames,      \* Gateway request: what was written to the client so far
    gstatus,     \* GetEvents handler: meta.Status as read before the chunks
    pollFailsLeft, \* network: polls that may still fail
    replayed,    \* history: the chunk list of the last poll response fed directly
    passes,      \* history: how many times in a row that list was fed
    produced,    \* history: the records processJob has decoded for a job, in order
    stream,      \* Gateway request: req.Stream
    fullContent, \* Gateway request, non-streaming: fullContent
    finishReason, \* Gateway request, non-streaming: finishReason
    evQuery,     \* GET /jobs/{id}/events of another client: its from_seq parameter
    evResp,      \* the chunks of the response to that request
    evLog,       \* history: the job's log when that response was made
    evJob,       \* the job id of that request
    evpc,        \* GetEvents handler of that request: its position
    evStatus,    \* GetEvents handler of that request: meta.Status as read
    evCode,      \* the HTTP status of the response to that request
    cancelledQueued, \* history: ids whose cancel was answered while in the FIFO
    rcancelled,  \* another Worker replica: its Worker.cancelled
    rcpc,        \* another Worker replica: its CancelJob handler of a job id
    atRCancel,   \* history: non-error chunks in the log when that replica's Cancel(id) ran
    nsLastSeq,   \* non-streaming handler fed side by side: lastSeq
    nsAnswer,    \* non-streaming handler fed side by side: what it has answered
    nsEnded,     \* non-streaming handler fed side by side: it has returned
    failStreak,  \* history: failed polls of the request since its last successful one
    runs         \* history: how many times an executor received the id from the channel

storeVars == <<meta, chunks, seqctr, ttl>>
workerVars == <<queue, activeJobs, queuedJobs, cancelled>>
execVars == <<pc, ejob, eline, eseq, eerr>>
handlerVars == <<hpc, hload, cpc>>
envVars == <<linesLeft, faultsLeft>>
histVars == <<atCancel, atObserve, produced, cancelledQueued, runs>>
nsVars == <<stream, fullContent, finishReason>>
obsVars == <<evQuery, evResp, evLog, evJob, evpc, evStatus, evCode>>
replicaVars == <<rcancelled, rcpc, atRCancel>>
pairVars == <<nsLastSeq, nsAnswer, nsEnded>>
backoffVars == <<failStreak>>
auxVars == <<replicaVars, pairVars, backoffVars>>
gwVars == <<gpc, lastSeq, retryDelay, frames, gstatus, pollFailsLeft, replayed, passes,
            nsVars, obsVars, auxVars>>

\* ------------------------------------------------------------ chunk store

\* ChunkData
Chunk(seq, delta, done, finish, err) ==
    [seq |-> seq, delta |-> delta, done |-> done, finish |-> finish, error |-> err]

\* Storage.UpdateJobStatus: HSET of the status field; creates the key if absent.
UpdateJobStatus(m, j, s) == [m EXCEPT ![j] = s]

\* Storage.AddChunk: RPUSH.
AddChunk(cs, j, c) == [cs EXCEPT ![j] = Append(@, c)]

\* A store command either is applied or fails (while faults remain).
StoreOutcomes == IF faultsLeft > 0 THEN {TRUE, FALSE} ELSE {TRUE}

Fault(ok) == faultsLeft' = IF ok THEN faultsLeft ELSE faultsLeft - 1

\* Chunks of a log that carry no error.
NonError(log) == SelectSeq(log, LAMBDA c : c.error = "")

\* ------------------------------------------------------ POST /jobs handler

\* Server.CreateJob up to storage.CreateJob: the metadata is written with
\* status queued; a store error answers 500.
CreateJobStore(j) ==
    /\ hpc[j] = "new"
    /\ \E ok \in StoreOutcomes :
        /\ Fault(ok)
        /\ meta' = IF ok THEN UpdateJobStatus(meta, j, StatusQueued) ELSE meta
        /\ hpc' = [hpc EXCEPT ![j] = IF ok THEN "enqueue" ELSE "r500"]
    /\ UNCHANGED <<chunks, seqctr, ttl, workerVars, execVars, hload, cpc, linesLeft, histVars>>
    /\ UNCHANGED gwVars

\* Worker.Enqueue, first critical section: read activeJobs and len(queue).
EnqueueRead(j) ==
    /\ hpc[j] = "enqueue"
    /\ hload' = [hload EXCEPT ![j] = activeJobs + Len(queue)]
    /\ hpc' = [hpc EXCEPT ![j] = "send"]
    /\ UNCHANGED <<storeVars, workerVars, execVars, cpc, envVars, histVars>>
    /\ UNCHANGED gwVars

\* EnqueueSend on a channel with one slot less than maxQueueSize.
EnqueueSendSmallChannel(j) ==
    /\ hpc[j] = "send"
    /\ IF hload[j] >= maxQueueSize
         THEN /\ hpc' = [hpc EXCEPT ![j] = "reject"]
              /\ UNCHANGED queue
         ELSE IF Len(queue) < maxQueueSize - 1
                THEN /\ queue' = Append(queue, j)
                     /\ hpc' = [hpc EXCEPT ![j] = "count"]
                ELSE /\ hpc' = [hpc EXCEPT ![j] = "reject"]
                     /\ UNCHANGED queue
    /\ UNCHANGED <<storeVars, activeJobs, queuedJobs, cancelled, execVars, hload, cpc,
                   envVars, histVars>>
    /\ UNCHANGED gwVars

\* EnqueueSend with a send that waits for room in the channel.
EnqueueSendBlocking(j) ==
    /\ hpc[j] = "send"
    /\ IF hload[j] >= maxQueueSize
         THEN /\ hpc' = [hpc EXCEPT ![j] = "reject"]
              /\ UNCHANGED queue
         ELSE /\ Len(queue) < maxQueueSize
              /\ queue' = Append(queue, j)
              /\ hpc' = [hpc EXCEPT ![j] = "count"]
    /\ UNCHANGED <<storeVars, activeJobs, queuedJobs, cancelled, execVars, hload, cpc,
                   envVars, histVars>>
    /\ UNCHANGED gwVars

\* Worker.Enqueue: the load check, then the non-blocking send.
EnqueueSend(j) ==
    /\ hpc[j] = "send"
    /\ IF hload[j] >= maxQueueSize
         THEN /\ hpc' = [hpc EXCEPT ![j] = "reject"]
              /\ UNCHANGED queue
         ELSE IF Len(queue) < maxQueueSize
                THEN /\ queue' = Append(queue, j)
                     /\ hpc' = [hpc EXCEPT ![j] = "count"]
                ELSE /\ hpc' = [hpc EXCEPT ![j] = "reject"]
                     /\ UNCHANGED queue
    /\ UNCHANGED <<storeVars, activeJobs, queuedJobs, cancelled, execVars, hload, cpc,
                   envVars, histVars>>
    /\ UNCHANGED gwVars

\* Worker.Enqueue, second critical section: queuedJobs++; CreateJob answers 200.
EnqueueCount(j) ==
    /\ hpc[j] = "count"
    /\ queuedJobs' = queuedJobs + 1
    /\ hpc' = [hpc EXCEPT ![j] = "r200"]
    /\ UNCHANGED <<storeVars, queue, activeJobs, cancelled, execVars, hload, cpc,
                   envVars, histVars>>
    /\ UNCHANGED gwVars

\* CreateJobReject that answers 429 without recording the failure.
CreateJobRejectSilent(j) ==
    /\ hpc[j] = "reject"
    /\ hpc' = [hpc EXCEPT ![j] = "r429"]
    /\ UNCHANGED <<storeVars, workerVars, execVars, hload, cpc, envVars, histVars>>
    /\ UNCHANGED gwVars

\* Server.CreateJob after Enqueue failed: status failed, answer 429.
CreateJobReject(j) ==
    /\ hpc[j] = "reject"
    /\ \E ok \in StoreOutcomes :
        /\ Fault(ok)
        /\ meta' = IF ok THEN UpdateJobStatus(meta, j, StatusFailed) ELSE meta
    /\ hpc' = [hpc EXCEPT ![j] = "r429"]
    /\ UNCHANGED <<chunks, seqctr, ttl, workerVars, execVars, hload, cpc, linesLeft, histVars>>
    /\ UNCHANGED gwVars

CreateJob(j) ==
    \/ CreateJobStore(j)
    \/ EnqueueRead(j)
    \/ EnqueueSend(j)
    \/ EnqueueCount(j)
    \/ CreateJobReject(j)

\* POST /jobs has answered the request.
Answered(j) == hpc[j] \in {"r200", "r429", "r500"}

\* ------------------------------------------------------- inference backend

NoJob == 0

\* One line of the response body as processJob classifies it: a valid data
\* record, a blank or non-data line, "data: [DONE]" (or an empty payload), or
\* a data line whose payload does not decode.
Line(kind, delta, done, reason) ==
    [kind |-> kind, delta |-> delta, done |-> done, reason |-> reason]

NoLine == Line("none", "", FALSE, "")

Lines ==
    {Line("rec", d, FALSE, "") : d \in Deltas}
        \cup {Line("rec", d, TRUE, r) : d \in Deltas, r \in {"stop", "length"}}
        \cup {Line("skip", "", FALSE, ""), Line("donemark", "", FALSE, ""),
              Line("bad", "", FALSE, "")}

\* ------------------------------------------------------------- Worker.run

\* RunDequeue that leaves the id on the channel.
RunDequeuePeek(e) ==
    /\ pc[e] = "recv"
    /\ queue # <<>>
    /\ ejob' = [ejob EXCEPT ![e] = Head(queue)]
    /\ pc' = [pc EXCEPT ![e] = "activate"]
    /\ runs' = [runs EXCEPT ![Head(queue)] = @ + 1]
    /\ UNCHANGED <<storeVars, workerVars, eline, eseq, eerr,
                   handlerVars, envVars, atCancel, atObserve, produced, cancelledQueued>>
    /\ UNCHANGED gwVars

\* for jobID := range w.queue: the receive from the channel.
RunDequeue(e) ==
    /\ pc[e] = "recv"
    /\ queue # <<>>
    /\ ejob' = [ejob EXCEPT ![e] = Head(queue)]
    /\ queue' = Tail(queue)
    /\ pc' = [pc EXCEPT ![e] = "activate"]
    /\ runs' = [runs EXCEPT ![Head(queue)] = @ + 1]
    /\ UNCHANGED <<storeVars, activeJobs, queuedJobs, cancelled, eline, eseq, eerr,
                   handlerVars, envVars, atCancel, atObserve, produced, cancelledQueued>>
    /\ UNCHANGED gwVars

\* activeJobs++; queuedJobs--
RunActivate(e) ==
    /\ pc[e] = "activate"
    /\ activeJobs' = activeJobs + 1
    /\ queuedJobs' = queuedJobs - 1
    /\ pc' = [pc EXCEPT ![e] = "getmeta"]
    /\ UNCHANGED <<storeVars, queue, cancelled, ejob, eline, eseq, eerr, handlerVars,
                   envVars, histVars>>
    /\ UNCHANGED gwVars

\* RunRelease without the decrement of activeJobs.
RunReleaseNoDecrement(e) ==
    /\ pc[e] = "release"
    /\ pc' = [pc EXCEPT ![e] = "recv"]
    /\ ejob' = [ejob EXCEPT ![e] = NoJob]
    /\ UNCHANGED <<storeVars, workerVars, eline, eseq, eerr, handlerVars, envVars,
                   histVars>>
    /\ UNCHANGED gwVars

\* processJob has returned: activeJobs--, back to the receive.
RunRelease(e) ==
    /\ pc[e] = "release"
    /\ activeJobs' = activeJobs - 1
    /\ pc' = [pc EXCEPT ![e] = "recv"]
    /\ ejob' = [ejob EXCEPT ![e] = NoJob]
    /\ UNCHANGED <<storeVars, queue, queuedJobs, cancelled, eline, eseq, eerr,
                   handlerVars, envVars, histVars>>
    /\ UNCHANGED gwVars

\* ------------------------------------------------------ Worker.processJob

\* storage.GetJobMeta: an error or an empty hash abandons the job.
PJGetMeta(e) ==
    /\ pc[e] = "getmeta"
    /\ \E ok \in StoreOutcomes :
        /\ Fault(ok)
        /\ pc' = [pc EXCEPT ![e] =
                    IF ok /\ meta[ejob[e]] # NoMeta THEN "setrunning" ELSE "release"]
    /\ UNCHANGED <<storeVars, workerVars, ejob, eline, eseq, eerr, handlerVars,
                   linesLeft, histVars>>
    /\ UNCHANGED gwVars

\* PJSetRunning that calls finishJobWithError when the write fails.
PJSetRunningFailFinishes(e) ==
    /\ pc[e] = "setrunning"
    /\ \E ok \in StoreOutcomes :
        /\ Fault(ok)
        /\ meta' = IF ok THEN UpdateJobStatus(meta, ejob[e], StatusRunning) ELSE meta
        /\ pc' = [pc EXCEPT ![e] = IF ok THEN "open" ELSE "fj_incr"]
        /\ eerr' = [eerr EXCEPT ![e] = IF ok THEN @ ELSE "store error"]
    /\ UNCHANGED <<chunks, seqctr, ttl, workerVars, ejob, eline, eseq,
                   handlerVars, linesLeft, histVars>>
    /\ UNCHANGED gwVars

\* storage.UpdateJobStatus(jobID, StatusRunning): an error abandons the job.
PJSetRunning(e) ==
    /\ pc[e] = "setrunning"
    /\ \E ok \in StoreOutcomes :
        /\ Fault(ok)
        /\ meta' = IF ok THEN UpdateJobStatus(meta, ejob[e], StatusRunning) ELSE meta
        /\ pc' = [pc EXCEPT ![e] = IF ok THEN "open" ELSE "release"]
    /\ UNCHANGED <<chunks, seqctr, ttl, workerVars, ejob, eline, eseq, eerr,
                   handlerVars, linesLeft, histVars>>
    /\ UNCHANGED gwVars

\* client.Do and the status check: a connection error or a status other
\* than 200 goes to finishJobWithError.
PJOpen(e) ==
    /\ pc[e] = "open"
    /\ \E ok \in BOOLEAN :
        /\ pc' = [pc EXCEPT ![e] = IF ok THEN "scan" ELSE "fj_incr"]
        /\ eerr' = [eerr EXCEPT ![e] = IF ok THEN "" ELSE "ollama request error"]
    /\ UNCHANGED <<storeVars, workerVars, ejob, eline, eseq, handlerVars, envVars,
                   histVars>>
    /\ UNCHANGED gwVars

\* scanner.Scan(): the next line of the body; or the end of the body
\* (scanner.Err() nil: the job completes); or a read error (scanner.Err()
\* non-nil: finishJobWithError).
PJScan(e) ==
    /\ pc[e] = "scan"
    /\ \/ /\ linesLeft[ejob[e]] > 0
          /\ \E l \in Lines : eline' = [eline EXCEPT ![e] = l]
          /\ linesLeft' = [linesLeft EXCEPT ![ejob[e]] = @ - 1]
          /\ pc' = [pc EXCEPT ![e] = "check"]
          /\ UNCHANGED eerr
       \/ /\ pc' = [pc EXCEPT ![e] = "complete"]
          /\ UNCHANGED <<eline, eerr, linesLeft>>
       \/ /\ pc' = [pc EXCEPT ![e] = "fj_incr"]
          /\ eerr' = [eerr EXCEPT ![e] = "stream error"]
          /\ UNCHANGED <<eline, linesLeft>>
    /\ UNCHANGED <<storeVars, workerVars, ejob, eseq, handlerVars, faultsLeft, histVars>>
    /\ UNCHANGED gwVars

\* isCancelled reading a registry that Cancel never reaches.
isCancelledNever(j) == FALSE

\* Worker.isCancelled
isCancelled(j) == j \in cancelled

\* The head of the loop body: the cancellation check, then the line is
\* classified (skipped, end of stream, decode error, or a record to append).
PJCheck(e) ==
    /\ pc[e] = "check"
    /\ IF isCancelled(ejob[e])
         THEN /\ pc' = [pc EXCEPT ![e] = "fj_incr"]
              /\ eerr' = [eerr EXCEPT ![e] = "cancelled"]
              /\ eline' = [eline EXCEPT ![e] = NoLine]
              /\ atObserve' = [atObserve EXCEPT ![ejob[e]] =
                                  IF @ < 0 THEN Len(NonError(chunks[ejob[e]])) ELSE @]
              /\ UNCHANGED produced
         ELSE /\ pc' = [pc EXCEPT ![e] =
                          CASE eline[e].kind = "skip" -> "scan"
                            [] eline[e].kind = "donemark" -> "complete"
                            [] eline[e].kind = "bad" -> "fj_incr"
                            [] OTHER -> "incr"]
              /\ eerr' = [eerr EXCEPT ![e] =
                            IF eline[e].kind = "bad" THEN "decode error" ELSE @]
              /\ eline' = [eline EXCEPT ![e] = IF eline[e].kind = "rec" THEN @ ELSE NoLine]
              /\ produced' = [produced EXCEPT ![ejob[e]] =
                                 IF eline[e].kind = "rec" THEN Append(@, eline[e]) ELSE @]
              /\ UNCHANGED atObserve
    /\ UNCHANGED <<storeVars, workerVars, ejob, eseq, handlerVars, envVars, atCancel,
                   cancelledQueued, runs>>
    /\ UNCHANGED gwVars

\* PJIncrSeq that writes the status completed before the done chunk is added.
PJIncrSeqStatusFirst(e) ==
    /\ pc[e] = "incr"
    /\ \E ok \in StoreOutcomes :
        /\ Fault(ok)
        /\ seqctr' = IF ok THEN [seqctr EXCEPT ![ejob[e]] = @ + 1] ELSE seqctr
        /\ eseq' = [eseq EXCEPT ![e] = IF ok THEN seqctr[ejob[e]] + 1 ELSE 0]
        /\ pc' = [pc EXCEPT ![e] = IF ok THEN "add" ELSE "scan"]
        /\ eline' = [eline EXCEPT ![e] = IF ok THEN @ ELSE NoLine]
        /\ meta' = IF ok /\ eline[e].done
                     THEN UpdateJobStatus(meta, ejob[e], StatusCompleted) ELSE meta
    /\ UNCHANGED <<chunks, ttl, workerVars, ejob, eerr, handlerVars, linesLeft,
                   histVars>>
    /\ UNCHANGED gwVars

\* PJIncrSeq that ends the job with finishJobWithError when IncrSeq fails.
PJIncrSeqFailStops(e) ==
    /\ pc[e] = "incr"
    /\ \E ok \in StoreOutcomes :
        /\ Fault(ok)
        /\ seqctr' = IF ok THEN [seqctr EXCEPT ![ejob[e]] = @ + 1] ELSE seqctr
        /\ eseq' = [eseq EXCEPT ![e] = IF ok THEN seqctr[ejob[e]] + 1 ELSE 0]
        /\ pc' = [pc EXCEPT ![e] = IF ok THEN "add" ELSE "fj_incr"]
        /\ eline' = [eline EXCEPT ![e] = IF ok THEN @ ELSE NoLine]
        /\ eerr' = [eerr EXCEPT ![e] = IF ok THEN @ ELSE "store error"]
    /\ UNCHANGED <<meta, chunks, ttl, workerVars, ejob, handlerVars, linesLeft,
                   histVars>>
    /\ UNCHANGED gwVars

\* storage.IncrSeq: on an error the record is dropped (continue).
PJIncrSeq(e) ==
    /\ pc[e] = "incr"
    /\ \E ok \in StoreOutcomes :
        /\ Fault(ok)
        /\ seqctr' = IF ok THEN [seqctr EXCEPT ![ejob[e]] = @ + 1] ELSE seqctr
        /\ eseq' = [eseq EXCEPT ![e] = IF ok THEN seqctr[ejob[e]] + 1 ELSE 0]
        /\ pc' = [pc EXCEPT ![e] = IF ok THEN "add" ELSE "scan"]
        /\ eline' = [eline EXCEPT ![e] = IF ok THEN @ ELSE NoLine]
    /\ UNCHANGED <<meta, chunks, ttl, workerVars, ejob, eerr, handlerVars, linesLeft,
                   histVars>>
    /\ UNCHANGED gwVars

\* RecordChunk that sets FinishReason on every chunk, done or not.
RecordChunkFinishAlways(seq, l) ==
    Chunk(seq, l.delta, l.done, IF l.reason = "length" THEN "length" ELSE "stop", "")

\* The chunk made of a record: FinishReason only when Done, "length" when
\* DoneReason is "length", else "stop".
RecordChunk(seq, l) ==
    Chunk(seq, l.delta, l.done,
          IF l.done THEN (IF l.reason = "length" THEN "length" ELSE "stop") ELSE "",
          "")

\* PJAddChunk that goes on scanning after a done record.
PJAddChunkNoBreak(e) ==
    /\ pc[e] = "add"
    /\ \E ok \in StoreOutcomes :
        /\ Fault(ok)
        /\ chunks' = IF ok THEN AddChunk(chunks, ejob[e], RecordChunk(eseq[e], eline[e]))
                     ELSE chunks
    /\ pc' = [pc EXCEPT ![e] = "scan"]
    /\ eline' = [eline EXCEPT ![e] = NoLine]
    /\ eseq' = [eseq EXCEPT ![e] = 0]
    /\ UNCHANGED <<meta, seqctr, ttl, workerVars, ejob, eerr, handlerVars, linesLeft,
                   histVars>>
    /\ UNCHANGED gwVars

\* storage.AddChunk of the record's chunk (an error is logged and ignored),
\* then break if the record is done.
PJAddChunk(e) ==
    /\ pc[e] = "add"
    /\ \E ok \in StoreOutcomes :
        /\ Fault(ok)
        /\ chunks' = IF ok THEN AddChunk(chunks, ejob[e], RecordChunk(eseq[e], eline[e]))
                     ELSE chunks
    /\ pc' = [pc EXCEPT ![e] = IF eline[e].done THEN "complete" ELSE "scan"]
    /\ eline' = [eline EXCEPT ![e] = NoLine]
    /\ eseq' = [eseq EXCEPT ![e] = 0]
    /\ UNCHANGED <<meta, seqctr, ttl, workerVars, ejob, eerr, handlerVars, linesLeft,
                   histVars>>
    /\ UNCHANGED gwVars

\* PJComplete that leaves the status as it is.
PJCompleteNoStatus(e) ==
    /\ pc[e] = "complete"
    /\ \E ok \in StoreOutcomes : Fault(ok)
    /\ pc' = [pc EXCEPT ![e] = "setttl"]
    /\ UNCHANGED <<meta, chunks, seqctr, ttl, workerVars, ejob, eline, eseq, eerr,
                   handlerVars, linesLeft, histVars>>
    /\ UNCHANGED gwVars

\* storage.UpdateJobStatus(jobID, StatusCompleted, now, ""): an error is logged.
PJComplete(e) ==
    /\ pc[e] = "complete"
    /\ \E ok \in StoreOutcomes :
        /\ Fault(ok)
        /\ meta' = IF ok THEN UpdateJobStatus(meta, ejob[e], StatusCompleted) ELSE meta
    /\ pc' = [pc EXCEPT ![e] = "setttl"]
    /\ UNCHANGED <<chunks, seqctr, ttl, workerVars, ejob, eline, eseq, eerr,
                   handlerVars, linesLeft, histVars>>
    /\ UNCHANGED gwVars

\* storage.SetTTL(jobID, 24h): an error is logged; processJob returns.
PJSetTTL(e) ==
    /\ pc[e] = "setttl"
    /\ \E ok \in StoreOutcomes :
        /\ Fault(ok)
        /\ ttl' = IF ok THEN [ttl EXCEPT ![ejob[e]] = @ + 1] ELSE ttl
    /\ pc' = [pc EXCEPT ![e] = "release"]
    /\ UNCHANGED <<meta, chunks, seqctr, workerVars, ejob, eline, eseq, eerr,
                   handlerVars, linesLeft, histVars>>
    /\ UNCHANGED gwVars

\* ----------------------------------------------- Worker.finishJobWithError

\* seq, _ := storage.IncrSeq(jobID): on an error seq is 0.
FJIncrSeq(e) ==
    /\ pc[e] = "fj_incr"
    /\ \E ok \in StoreOutcomes :
        /\ Fault(ok)
        /\ seqctr' = IF ok THEN [seqctr EXCEPT ![ejob[e]] = @ + 1] ELSE seqctr
        /\ eseq' = [eseq EXCEPT ![e] = IF ok THEN seqctr[ejob[e]] + 1 ELSE 0]
    /\ pc' = [pc EXCEPT ![e] = "fj_add"]
    /\ UNCHANGED <<meta, chunks, ttl, workerVars, ejob, eline, eerr, handlerVars,
                   linesLeft, histVars>>
    /\ UNCHANGED gwVars

\* The synthetic chunk of finishJobWithError.
ErrorChunk(seq, msg) == Chunk(seq, "", TRUE, "error", msg)

\* storage.AddChunk of the synthetic chunk; its error is dropped.
FJAddChunk(e) ==
    /\ pc[e] = "fj_add"
    /\ \E ok \in StoreOutcomes :
        /\ Fault(ok)
        /\ chunks' = IF ok THEN AddChunk(chunks, ejob[e], ErrorChunk(eseq[e], eerr[e]))
                     ELSE chunks
    /\ pc' = [pc EXCEPT ![e] = "fj_status"]
    /\ eseq' = [eseq EXCEPT ![e] = 0]
    /\ UNCHANGED <<meta, seqctr, ttl, workerVars, ejob, eline, eerr, handlerVars,
                   linesLeft, histVars>>
    /\ UNCHANGED gwVars

\* storage.UpdateJobStatus(jobID, StatusFailed, now, errorMsg); its error is
\* dropped; finishJobWithError and processJob return.
FJStatus(e) ==
    /\ pc[e] = "fj_status"
    /\ \E ok \in StoreOutcomes :
        /\ Fault(ok)
        /\ meta' = IF ok THEN UpdateJobStatus(meta, ejob[e], StatusFailed) ELSE meta
    /\ pc' = [pc EXCEPT ![e] = "release"]
    /\ eerr' = [eerr EXCEPT ![e] = ""]
    /\ UNCHANGED <<chunks, seqctr, ttl, workerVars, ejob, eline, eseq, handlerVars,
                   linesLeft, histVars>>
    /\ UNCHANGED gwVars

finishJobWithError(e) ==
    \/ FJIncrSeq(e)
    \/ FJAddChunk(e)
    \/ FJStatus(e)

processJob(e) ==
    \/ PJGetMeta(e)
    \/ PJSetRunning(e)
    \/ PJOpen(e)
    \/ PJScan(e)
    \/ PJCheck(e)
    \/ PJIncrSeq(e)
    \/ PJAddChunk(e)
    \/ PJComplete(e)
    \/ PJSetTTL(e)
    \/ finishJobWithError(e)

run(e) ==
    \/ RunDequeue(e)
    \/ RunActivate(e)
    \/ processJob(e)
    \/ RunRelease(e)

\* ----------------------------------------------- POST /jobs/{id}/cancel

\* Worker.Cancel: cancelled[jobID] = true.
Cancel(j) ==
    /\ cpc[j] = "none"
    /\ cancelled' = cancelled \cup {j}
    /\ atCancel' = [atCancel EXCEPT ![j] = IF @ < 0 THEN Len(NonError(chunks[j])) ELSE @]
    /\ cpc' = [cpc EXCEPT ![j] = "status"]
    /\ UNCHANGED <<storeVars, queue, activeJobs, queuedJobs, execVars, hpc, hload,
                   envVars, atObserve, produced, cancelledQueued, runs>>
    /\ UNCHANGED gwVars

\* Server.CancelJob after Worker.Cancel: the status is written cancelled
\* (200), or the store fails (500).
CancelStatus(j) ==
    /\ cpc[j] = "status"
    /\ \E ok \in StoreOutcomes :
        /\ Fault(ok)
        /\ meta' = IF ok THEN UpdateJobStatus(meta, j, StatusCancelled) ELSE meta
        /\ cpc' = [cpc EXCEPT ![j] = IF ok THEN "r200" ELSE "r500"]
        /\ cancelledQueued' =
              IF ok /\ (\E i \in 1 .. Len(queue) : queue[i] = j)
                THEN cancelledQueued \cup {j} ELSE cancelledQueued
    /\ UNCHANGED <<chunks, seqctr, ttl, workerVars, execVars, hpc, hload, linesLeft,
                   atCancel, atObserve, produced, runs>>
    /\ UNCHANGED gwVars

CancelJob(j) ==
    \/ Cancel(j)
    \/ CancelStatus(j)

\* The client that was answered 200 with the job's id asks for its cancellation.
ClientCancel(j) == hpc[j] = "r200" /\ CancelJob(j)

\* ---------------------------------------------- GET /jobs/{id}/events

RECURSIVE GetChunksFrom(_, _, _)
\* The loop of Storage.GetChunks over the whole list: a chunk with
\* Seq > fromSeq is kept, and the loop stops once ChunkCap chunks are kept.
GetChunksFrom(log, fromSeq, acc) ==
    IF log = <<>> \/ Len(acc) >= ChunkCap
      THEN acc
      ELSE GetChunksFrom(Tail(log), fromSeq,
                         IF Head(log).seq > fromSeq THEN Append(acc, Head(log)) ELSE acc)

\* Storage.GetChunks
GetChunks(log, fromSeq) == GetChunksFrom(log, fromSeq, <<>>)

\* The from_seq parameter of a request: absent (<<>>) or one integer.
FromSeqs == (-1) .. MaxFromSeq

Queries == {<<>>} \cup {<<n>> : n \in FromSeqs}

\* Server.GetEvents: fromSeq is -1 unless the parameter is given.
ParseFromSeq(q) == IF q = <<>> THEN -1 ELSE q[1]

\* Server.GetEvents for a client other than the Gateway, with any from_seq:
\* storage.GetJobMeta, 404 on an error or an empty hash, else the status is
\* read.
ClientGetEventsMeta(j) ==
    /\ evpc \in {"idle", "done"}
    /\ \E q \in Queries, ok \in StoreOutcomes :
        /\ Fault(ok)
        /\ evQuery' = q
        /\ IF ok /\ meta[j] # NoMeta
             THEN evpc' = "chunks" /\ evStatus' = meta[j] /\ evCode' = ""
             ELSE evpc' = "done" /\ evStatus' = "" /\ evCode' = "404"
    /\ evJob' = j
    /\ evResp' = <<>>
    /\ evLog' = <<>>
    /\ UNCHANGED <<storeVars, workerVars, execVars, handlerVars, linesLeft, histVars>>
    /\ UNCHANGED <<gpc, lastSeq, retryDelay, frames, gstatus, pollFailsLeft, replayed,
                   passes, nsVars, auxVars>>

\* storage.GetChunks(jobID, fromSeq): 500 on a store error, else 200 with
\* the status read before and the chunks.
ClientGetEventsChunks(j) ==
    /\ evpc = "chunks"
    /\ evJob = j
    /\ \E ok \in StoreOutcomes :
        /\ Fault(ok)
        /\ evResp' = IF ok THEN GetChunks(chunks[j], ParseFromSeq(evQuery)) ELSE <<>>
        /\ evLog' = IF ok THEN chunks[j] ELSE <<>>
        /\ evCode' = IF ok THEN "200" ELSE "500"
        /\ evStatus' = IF ok THEN evStatus ELSE ""
    /\ evpc' = "done"
    /\ UNCHANGED <<evQuery, evJob>>
    /\ UNCHANGED <<storeVars, workerVars, execVars, handlerVars, linesLeft, histVars>>
    /\ UNCHANGED <<gpc, lastSeq, retryDelay, frames, gstatus, pollFailsLeft, replayed,
                   passes, nsVars, auxVars>>

ClientGetEvents(j) ==
    \/ ClientGetEventsMeta(j)
    \/ ClientGetEventsChunks(j)

\* ------------------------------------------- Gateway: handleStreamingChat

\* LoadConfig: RETRY_BACKOFF_INIT_MS and RETRY_BACKOFF_MAX_MS.
RetryBackoffInitMS == 1000
RetryBackoffMaxMS == 30000

min(a, b) == IF a < b THEN a ELSE b

\* A data frame whose delta has no content key.
NoContent == "<none>"

\* What the Gateway writes to the client. seq is not on the wire: it names
\* the chunk a data frame was made of.
Frame(kind, seq, content, finish, msg) ==
    [kind |-> kind, seq |-> seq, content |-> content, finish |-> finish, msg |-> msg]

\* The chat.completion.chunk frame of a chunk: delta.content is the chunk's
\* Delta, "" for an empty Delta on a done chunk, and absent otherwise.
DataFrame(c) ==
    Frame("data", c.seq,
          IF c.delta # "" THEN c.delta ELSE IF c.done THEN "" ELSE NoContent,
          c.finish, "")

\* writeSSEError
ErrorFrame(msg) == Frame("error", 0, NoContent, "", msg)

\* data: [DONE]
DoneFrame == Frame("done", 0, NoContent, "", "")

\* writeError: a plain HTTP error response instead of a stream.
HttpError(code) == Frame("http", 0, NoContent, "", code)

\* lastSeq, the frames written, and whether the handler has returned.
GwState(ls, fs, term) == [lastSeq |-> ls, frames |-> fs, term |-> term]

\* StreamChunk skipping only chunks below lastSeq.
StreamChunkOffByOne(g, c) ==
    IF c.seq < g.lastSeq
      THEN g
      ELSE IF c.error # ""
             THEN GwState(c.seq, Append(g.frames, ErrorFrame(c.error)), TRUE)
             ELSE IF c.done
                    THEN GwState(c.seq, g.frames \o <<DataFrame(c), DoneFrame>>, TRUE)
                    ELSE GwState(c.seq, Append(g.frames, DataFrame(c)), FALSE)

\* StreamChunk that does not look at chunk.Error.
StreamChunkErrorIgnored(g, c) ==
    IF c.seq <= g.lastSeq
      THEN g
      ELSE IF c.done
             THEN GwState(c.seq, g.frames \o <<DataFrame(c), DoneFrame>>, TRUE)
             ELSE GwState(c.seq, Append(g.frames, DataFrame(c)), FALSE)

\* The body of "for _, chunk := range events.Chunks".
StreamChunk(g, c) ==
    IF c.seq <= g.lastSeq
      THEN g
      ELSE IF c.error # ""
             THEN GwState(c.seq, Append(g.frames, ErrorFrame(c.error)), TRUE)
             ELSE IF c.done
                    THEN GwState(c.seq, g.frames \o <<DataFrame(c), DoneFrame>>, TRUE)
                    ELSE GwState(c.seq, Append(g.frames, DataFrame(c)), FALSE)

RECURSIVE StreamChunks(_, _)
\* The chunk loop: it ends with the list or with the handler's return.
StreamChunks(g, cs) ==
    IF cs = <<>> \/ g.term THEN g ELSE StreamChunks(StreamChunk(g, Head(cs)), Tail(cs))

\* StreamStatus that is reached also when the chunk loop has returned.
StreamStatusAfterReturn(g, st) ==
    IF st \notin {StatusCompleted, StatusFailed, StatusCancelled}
      THEN g
      ELSE GwState(g.lastSeq,
                   Append(g.frames,
                          IF st = StatusCompleted THEN DoneFrame
                          ELSE IF st = StatusFailed THEN ErrorFrame("job failed")
                          ELSE ErrorFrame("job cancelled")),
                   TRUE)

\* StreamStatus that takes only completed and failed for terminal.
StreamStatusCancelledOpen(g, st) ==
    IF g.term \/ st \notin {StatusCompleted, StatusFailed}
      THEN g
      ELSE GwState(g.lastSeq,
                   Append(g.frames,
                          IF st = StatusCompleted THEN DoneFrame
                          ELSE ErrorFrame("job failed")),
                   TRUE)

\* The status check after the chunk loop.
StreamStatus(g, st) ==
    IF g.term \/ st \notin {StatusCompleted, StatusFailed, StatusCancelled}
      THEN g
      ELSE GwState(g.lastSeq,
                   Append(g.frames,
                          IF st = StatusCompleted THEN DoneFrame
                          ELSE IF st = StatusFailed THEN ErrorFrame("job failed")
                          ELSE ErrorFrame("job cancelled")),
                   TRUE)

\* One successful poll in the Gateway: retryDelay is reset, the chunks and
\* the status of the response are processed.
Deliver(cs, st) ==
    LET g == StreamStatus(StreamChunks(GwState(lastSeq, frames, FALSE), cs), st)
    IN  /\ retryDelay' = RetryBackoffInitMS
        /\ failStreak' = 0
        /\ lastSeq' = g.lastSeq
        /\ frames' = g.frames
        /\ gpc' = IF g.term THEN "end" ELSE "loop"

\* Backoff that adds RetryBackoffInitMS instead of doubling.
BackoffAdditive ==
    /\ retryDelay' = min(retryDelay + RetryBackoffInitMS, RetryBackoffMaxMS)
    /\ failStreak' = IF failStreak < MaxStreak THEN failStreak + 1 ELSE failStreak

\* A failed poll: sleep retryDelay, double it up to the maximum, poll again.
Backoff ==
    /\ retryDelay' = min(retryDelay * 2, RetryBackoffMaxMS)
    /\ failStreak' = IF failStreak < MaxStreak THEN failStreak + 1 ELSE failStreak

\* createBackendJob has its answer from POST /jobs: the stream is opened on
\* 200, else an HTTP error is written and the handler returns.
StreamCreate(j) ==
    /\ gpc = "create"
    /\ Answered(j)
    /\ IF hpc[j] = "r200"
         THEN gpc' = "loop" /\ UNCHANGED frames
         ELSE /\ gpc' = "end"
              /\ frames' = <<HttpError(IF hpc[j] = "r429" THEN "429" ELSE "500")>>
    /\ UNCHANGED <<storeVars, workerVars, execVars, handlerVars, envVars, histVars,
                   lastSeq, retryDelay, gstatus, pollFailsLeft, replayed, passes>>
    /\ UNCHANGED <<nsVars, obsVars, auxVars>>

\* StreamTimeout that does not look at ctx.Done(): the loop goes on.
StreamTimeoutIgnored ==
    /\ gpc = "loop"
    /\ UNCHANGED <<storeVars, workerVars, execVars, handlerVars, envVars, histVars,
                   gwVars>>

\* StreamTimeout that cancels the Worker job as the loop is torn down.
StreamTimeoutCancels ==
    /\ gpc = "loop"
    /\ frames' = Append(frames, ErrorFrame("timeout exceeded"))
    /\ gpc' = "end"
    /\ cancelled' = cancelled \cup {j \in Jobs : hpc[j] = "r200"}
    /\ meta' = [j \in Jobs |-> IF hpc[j] = "r200" THEN StatusCancelled ELSE meta[j]]
    /\ UNCHANGED <<chunks, seqctr, ttl, queue, activeJobs, queuedJobs, execVars,
                   handlerVars, envVars, histVars,
                   lastSeq, retryDelay, gstatus, pollFailsLeft, replayed, passes>>
    /\ UNCHANGED <<nsVars, obsVars, auxVars>>

\* case <-ctx.Done(): the deadline has passed or the client has gone.
StreamTimeout ==
    /\ gpc = "loop"
    /\ frames' = Append(frames, ErrorFrame("timeout exceeded"))
    /\ gpc' = "end"
    /\ UNCHANGED <<storeVars, workerVars, execVars, handlerVars, envVars, histVars,
                   lastSeq, retryDelay, gstatus, pollFailsLeft, replayed, passes>>
    /\ UNCHANGED <<nsVars, obsVars, auxVars>>

\* PollFail that reports the failure to the client and ends the stream.
PollFailSurfaced ==
    /\ gpc = "loop"
    /\ pollFailsLeft > 0
    /\ pollFailsLeft' = pollFailsLeft - 1
    /\ Backoff
    /\ frames' = Append(frames, ErrorFrame("poll failed"))
    /\ gpc' = "end"
    /\ UNCHANGED <<storeVars, workerVars, execVars, handlerVars, envVars, histVars,
                   lastSeq, gstatus, replayed, passes>>
    /\ UNCHANGED <<nsVars, obsVars, replicaVars, pairVars>>

\* pollBackendEvents fails on the network.
PollFail ==
    /\ gpc = "loop"
    /\ pollFailsLeft > 0
    /\ pollFailsLeft' = pollFailsLeft - 1
    /\ Backoff
    /\ UNCHANGED <<storeVars, workerVars, execVars, handlerVars, envVars, histVars,
                   gpc, lastSeq, frames, gstatus, replayed, passes>>
    /\ UNCHANGED <<nsVars, obsVars, replicaVars, pairVars>>

\* Server.GetEvents, storage.GetJobMeta: 404 (a failed poll) on an error or
\* an empty hash, else the status is read.
GetEventsMeta(j) ==
    /\ gpc = "loop"
    /\ \E ok \in StoreOutcomes :
        /\ Fault(ok)
        /\ IF ok /\ meta[j] # NoMeta
             THEN gpc' = "events" /\ gstatus' = meta[j] /\ UNCHANGED <<retryDelay, failStreak>>
             ELSE Backoff /\ UNCHANGED <<gpc, gstatus>>
    /\ UNCHANGED <<storeVars, workerVars, execVars, handlerVars, linesLeft, histVars,
                   lastSeq, frames, pollFailsLeft, replayed, passes>>
    /\ UNCHANGED <<nsVars, obsVars, replicaVars, pairVars>>

\* Server.GetEvents, storage.GetChunks(jobID, fromSeq) and the response; the
\* Gateway processes it. A store error answers 500 (a failed poll).
GetEventsChunks(j) ==
    /\ gpc = "events"
    /\ \E ok \in StoreOutcomes :
        /\ Fault(ok)
        /\ IF ok
             THEN Deliver(GetChunks(chunks[j], lastSeq), gstatus)
             ELSE Backoff /\ gpc' = "loop" /\ UNCHANGED <<lastSeq, frames>>
    /\ gstatus' = ""
    /\ UNCHANGED <<storeVars, workerVars, execVars, handlerVars, linesLeft, histVars,
                   pollFailsLeft, replayed, passes>>
    /\ UNCHANGED <<nsVars, obsVars, replicaVars, pairVars>>

handleStreamingChat(j) ==
    \/ StreamCreate(j)
    \/ StreamTimeout
    \/ PollFail
    \/ GetEventsMeta(j)
    \/ GetEventsChunks(j)

\* ---------------------------------------- Gateway: handleNonStreamingChat

\* The single chat.completion response of a non-streaming request.
JsonResponse(content, finish) == Frame("json", 0, content, finish, "")

\* lastSeq, fullContent, finishReason, what was written, whether the
\* handler has returned, and whether the chunk loop was left by break.
NSState(ls, fc, fr, fs, term, brk) ==
    [lastSeq |-> ls, content |-> fc, finish |-> fr, frames |-> fs, term |-> term,
     brk |-> brk]

\* The body of "for _, chunk := range events.Chunks" in handleNonStreamingChat.
NSChunk(g, c) ==
    IF c.seq <= g.lastSeq
      THEN g
      ELSE IF c.error # ""
             THEN NSState(c.seq, g.content, g.finish, <<HttpError("500")>>, TRUE, FALSE)
             ELSE IF c.done
                    THEN NSState(c.seq, g.content \o c.delta, c.finish, g.frames, FALSE, TRUE)
                    ELSE NSState(c.seq, g.content \o c.delta, g.finish, g.frames, FALSE, FALSE)

RECURSIVE NSChunks(_, _)
\* The chunk loop: it ends with the list, with a break or with a return.
NSChunks(g, cs) ==
    IF cs = <<>> \/ g.term \/ g.brk THEN g ELSE NSChunks(NSChunk(g, Head(cs)), Tail(cs))

\* The status checks after the chunk loop.
NSStatus(g, st) ==
    IF g.term
      THEN g
      ELSE IF st = StatusCompleted
             THEN NSState(g.lastSeq, g.content, g.finish,
                          <<JsonResponse(g.content, g.finish)>>, TRUE, FALSE)
             ELSE IF st \in {StatusFailed, StatusCancelled}
                    THEN NSState(g.lastSeq, g.content, g.finish, <<HttpError("500")>>,
                                 TRUE, FALSE)
                    ELSE g

\* One successful poll of a non-streaming request.
NSDeliver(cs, st) ==
    LET g == NSStatus(NSChunks(NSState(lastSeq, fullContent, finishReason, frames,
                                       FALSE, FALSE), cs), st)
    IN  /\ retryDelay' = RetryBackoffInitMS
        /\ failStreak' = 0
        /\ lastSeq' = g.lastSeq
        /\ fullContent' = g.content
        /\ finishReason' = g.finish
        /\ frames' = g.frames
        /\ gpc' = IF g.term THEN "end" ELSE "loop"

\* case <-ctx.Done(): 504.
NSTimeout ==
    /\ gpc = "loop"
    /\ frames' = <<HttpError("504")>>
    /\ gpc' = "end"
    /\ UNCHANGED <<storeVars, workerVars, execVars, handlerVars, envVars, histVars,
                   lastSeq, retryDelay, gstatus, pollFailsLeft, replayed, passes>>
    /\ UNCHANGED <<nsVars, obsVars, auxVars>>

\* Server.GetEvents, storage.GetChunks and the response, processed by
\* handleNonStreamingChat. A store error answers 500 (a failed poll).
NSGetEventsChunks(j) ==
    /\ gpc = "events"
    /\ \E ok \in StoreOutcomes :
        /\ Fault(ok)
        /\ IF ok
             THEN NSDeliver(GetChunks(chunks[j], lastSeq), gstatus)
             ELSE /\ Backoff
                  /\ gpc' = "loop"
                  /\ UNCHANGED <<lastSeq, frames, fullContent, finishReason>>
    /\ gstatus' = ""
    /\ UNCHANGED <<storeVars, workerVars, execVars, handlerVars, linesLeft, histVars,
                   pollFailsLeft, replayed, passes, stream, obsVars, replicaVars,
                   pairVars>>

\* createBackendJob and the failed poll are the code of handleStreamingChat.
handleNonStreamingChat(j) ==
    \/ StreamCreate(j)
    \/ NSTimeout
    \/ PollFail
    \/ GetEventsMeta(j)
    \/ NSGetEventsChunks(j)

\* ChatCompletions: req.Stream selects the handler.
StreamingRequest(j) == stream /\ handleStreamingChat(j)

NonStreamingRequest(j) == ~stream /\ handleNonStreamingChat(j)

ChatCompletions(j) ==
    \/ StreamingRequest(j)
    \/ NonStreamingRequest(j)

\* The link between Gateway and Worker goes down again: polls fail anew.
NetworkDown ==
    /\ pollFailsLeft = 0
    /\ pollFailsLeft' = MaxPollFails
    /\ UNCHANGED <<storeVars, workerVars, execVars, handlerVars, envVars, histVars,
                   gpc, lastSeq, retryDelay, frames, gstatus, replayed, passes>>
    /\ UNCHANGED <<nsVars, obsVars, auxVars>>

\* ------------------------------------------------ poll responses, replayed

\* The chunks a response may carry: any seq, in any order, plain, done or
\* error chunks.
ReplayChunks ==
    {Chunk(q, "x", FALSE, "", "") : q \in 0 .. MaxReplaySeq}
        \cup {Chunk(q, "", TRUE, "stop", "") : q \in 0 .. MaxReplaySeq}
        \cup {Chunk(q, "", TRUE, "error", "boom") : q \in 0 .. MaxReplaySeq}

ReplayLists == UNION {[1 .. n -> ReplayChunks] : n \in 0 .. MaxReplayLen}

Statuses == {StatusQueued, StatusRunning, StatusCompleted, StatusFailed, StatusCancelled}

\* The Gateway gets a poll response with any chunk list and any status.
FeedResponse ==
    /\ gpc = "loop"
    /\ \E cs \in ReplayLists, st \in Statuses :
        /\ Deliver(cs, st)
        /\ replayed' = cs
    /\ passes' = 1
    /\ UNCHANGED <<storeVars, workerVars, execVars, handlerVars, envVars, histVars,
                   gstatus, pollFailsLeft>>
    /\ UNCHANGED <<nsVars, obsVars, replicaVars, pairVars>>

\* The Gateway gets the chunk list of the last response once more.
FeedReplay ==
    /\ gpc = "loop"
    /\ passes >= 1
    /\ passes < MaxPasses
    /\ \E st \in Statuses : Deliver(replayed, st)
    /\ passes' = passes + 1
    /\ UNCHANGED <<storeVars, workerVars, execVars, handlerVars, envVars, histVars,
                   gstatus, pollFailsLeft, replayed>>
    /\ UNCHANGED <<nsVars, obsVars, replicaVars, pairVars>>

\* --------------------------------------------------------- specifications

vars == <<meta, chunks, seqctr, ttl, queue, activeJobs, queuedJobs, cancelled,
          pc, ejob, eline, eseq, eerr, hpc, hload, cpc, linesLeft, faultsLeft,
          atCancel, atObserve, gpc, lastSeq, retryDelay, frames, gstatus,
          pollFailsLeft, replayed, passes, produced, stream, fullContent,
          finishReason, evQuery, evResp, evLog, evJob, evpc, evStatus, evCode,
          cancelledQueued, rcancelled, rcpc, atRCancel, nsLastSeq, nsAnswer, nsEnded,
          failStreak, runs>>

\* The Worker after NewWorker, with an empty store.
InitWorker ==
    /\ meta = [j \in Jobs |-> NoMeta]
    /\ chunks = [j \in Jobs |-> <<>>]
    /\ seqctr = [j \in Jobs |-> 0]
    /\ ttl = [j \in Jobs |-> 0]
    /\ queue = <<>>
    /\ activeJobs = 0
    /\ queuedJobs = 0
    /\ cancelled = {}
    /\ pc = [e \in Executors |-> "recv"]
    /\ ejob = [e \in Executors |-> NoJob]
    /\ eline = [e \in Executors |-> NoLine]
    /\ eseq = [e \in Executors |-> 0]
    /\ eerr = [e \in Executors |-> ""]
    /\ hpc = [j \in Jobs |-> "new"]
    /\ hload = [j \in Jobs |-> 0]
    /\ cpc = [j \in Jobs |-> "none"]
    /\ atCancel = [j \in Jobs |-> -1]
    /\ atObserve = [j \in Jobs |-> -1]
    /\ produced = [j \in Jobs |-> <<>>]
    /\ cancelledQueued = {}
    /\ runs = [j \in Jobs |-> 0]

\* A Gateway request before createBackendJob (at: "create"), or none ("off").
InitGateway(at) ==
    /\ gpc = at
    /\ lastSeq = -1
    /\ retryDelay = RetryBackoffInitMS
    /\ frames = <<>>
    /\ gstatus = ""
    /\ replayed = <<>>
    /\ passes = 0
    /\ fullContent = ""
    /\ finishReason = ""
    /\ evQuery = <<>>
    /\ evResp = <<>>
    /\ evLog = <<>>
    /\ evJob = NoJob
    /\ evpc = "idle"
    /\ evStatus = ""
    /\ evCode = ""
    /\ rcancelled = {}
    /\ rcpc = [j \in Jobs |-> "none"]
    /\ atRCancel = [j \in Jobs |-> -1]
    /\ nsLastSeq = -1
    /\ nsAnswer = <<>>
    /\ nsEnded = FALSE
    /\ failStreak = 0

\* Admission: 2N+1 concurrent POST /jobs against the executor pool. The
\* store does not fail; the backend sends a line for job 1 and an empty
\* body for the others.
InitAdmission ==
    /\ InitWorker
    /\ InitGateway("off")
    /\ stream = TRUE
    /\ pollFailsLeft = 0
    /\ linesLeft = [j \in Jobs |-> IF j = 1 THEN 1 ELSE 0]
    /\ faultsLeft = 0

NextAdmission ==
    \/ \E j \in Jobs : CreateJob(j)
    \/ \E e \in Executors : run(e)

SpecAdmission == InitAdmission /\ [][NextAdmission]_vars

\* One job from POST /jobs to its end, with a cancel request from the client
\* that was given its id, a backend body of up to MaxLines lines and up to
\* MaxFaults failing store commands.
TheJob == 1

InitJob ==
    /\ InitWorker
    /\ InitGateway("off")
    /\ stream = TRUE
    /\ pollFailsLeft = 0
    /\ linesLeft = [j \in Jobs |-> IF j = TheJob THEN MaxLines ELSE 0]
    /\ faultsLeft = MaxFaults

NextJob ==
    \/ CreateJobStore(TheJob)
    \/ EnqueueRead(TheJob)
    \/ EnqueueSend(TheJob)
    \/ EnqueueCount(TheJob)
    \/ \E e \in Executors : run(e)
    \/ ClientCancel(TheJob)

SpecJob == InitJob /\ [][NextJob]_vars

\* The one job as in SpecJob, and a client that reads its events with any
\* from_seq at any time.
NextEvents ==
    \/ CreateJobStore(TheJob)
    \/ EnqueueRead(TheJob)
    \/ EnqueueSend(TheJob)
    \/ EnqueueCount(TheJob)
    \/ \E e \in Executors : run(e)
    \/ ClientCancel(TheJob)
    \/ ClientGetEvents(TheJob)

SpecEvents == InitJob /\ [][NextEvents]_vars

\* A streaming Gateway request for the one job: the Gateway polls while the
\* executor runs the job, polls fail and the client may cancel. The store
\* does not fail.
InitStream ==
    /\ InitWorker
    /\ InitGateway("create")
    /\ stream = TRUE
    /\ pollFailsLeft = MaxPollFails
    /\ linesLeft = [j \in Jobs |-> IF j = TheJob THEN MaxLines ELSE 0]
    /\ faultsLeft = 0

NextStream ==
    \/ CreateJobStore(TheJob)
    \/ EnqueueRead(TheJob)
    \/ EnqueueSend(TheJob)
    \/ EnqueueCount(TheJob)
    \/ \E e \in Executors : run(e)
    \/ ClientCancel(TheJob)
    \/ handleStreamingChat(TheJob)

SpecStream == InitStream /\ [][NextStream]_vars

\* A non-streaming Gateway request for the one job, under the conditions of
\* SpecStream.
InitNonStream ==
    /\ InitWorker
    /\ InitGateway("create")
    /\ stream = FALSE
    /\ pollFailsLeft = MaxPollFails
    /\ linesLeft = [j \in Jobs |-> IF j = TheJob THEN MaxLines ELSE 0]
    /\ faultsLeft = 0

NextNonStream ==
    \/ CreateJobStore(TheJob)
    \/ EnqueueRead(TheJob)
    \/ EnqueueSend(TheJob)
    \/ EnqueueCount(TheJob)
    \/ \E e \in Executors : run(e)
    \/ ClientCancel(TheJob)
    \/ handleNonStreamingChat(TheJob)

SpecNonStream == InitNonStream /\ [][NextNonStream]_vars

\* A Gateway request of either kind under its overall deadline: the link
\* may stay down for ever and the executor may never finish the job (whose
\* backend body has one line at most). The handler's goroutine keeps
\* running, and since the deadline is finite, a loop that comes back to its
\* select again and again finds ctx.Done().
InitDeadline ==
    /\ InitWorker
    /\ InitGateway("create")
    /\ stream \in BOOLEAN
    /\ pollFailsLeft = MaxPollFails
    /\ linesLeft = [j \in Jobs |-> IF j = TheJob THEN 1 ELSE 0]
    /\ faultsLeft = 0

NextDeadline ==
    \/ CreateJobStore(TheJob)
    \/ EnqueueRead(TheJob)
    \/ EnqueueSend(TheJob)
    \/ EnqueueCount(TheJob)
    \/ \E e \in Executors : run(e)
    \/ ChatCompletions(TheJob)
    \/ NetworkDown

FairDeadline ==
    /\ WF_vars(ChatCompletions(TheJob))
    /\ SF_vars(stream /\ StreamTimeout)
    /\ SF_vars(~stream /\ NSTimeout)

SpecDeadline == InitDeadline /\ [][NextDeadline]_vars /\ FairDeadline

\* The Gateway's chunk processing on its own: a request in its poll loop is
\* fed arbitrary poll responses, and replays of them.
InitReplay ==
    /\ InitWorker
    /\ InitGateway("loop")
    /\ stream = TRUE
    /\ pollFailsLeft = 0
    /\ linesLeft = [j \in Jobs |-> 0]
    /\ faultsLeft = 0

NextReplay ==
    \/ FeedResponse
    \/ FeedReplay

SpecReplay == InitReplay /\ [][NextReplay]_vars

\* ------------------------------------------------------------------ claims

\* An executor that has dequeued a job and has not returned from processJob.
Executing(e) == pc[e] \notin {"recv", "release"}

\* An executor inside processJob.
InProcessJob(e) == pc[e] \notin {"recv", "activate", "release"}

NumExecuting == Cardinality({e \in Executors : Executing(e)})

\* Enqueue accepts a job when it sends its id on the channel.
Accepted == {j \in Jobs : hpc[j] \in {"count", "r200"}}

Rejected == {j \in Jobs : hpc[j] = "r429"}

\* C1: the jobs being executed plus the jobs accepted and not yet executing
\* never exceed 2N.
C1_LoadBound == NumExecuting + Len(queue) <= 2 * Concurrency

\* C8: when all 2N+1 concurrent requests are answered and no job has
\* finished, exactly 2N were accepted and exactly one was rejected with 429.
C8_OverloadExact ==
    ((\A j \in Jobs : Answered(j)) /\ NumExecuting + Len(queue) = Cardinality(Accepted))
        => (Cardinality(Accepted) = 2 * Concurrency /\ Cardinality(Rejected) = 1)

\* C9: activeJobs stays within 0..N, and the executors inside processJob
\* (those that may hold an upstream call open) are never more than activeJobs.
C9_ActiveBound ==
    /\ activeJobs >= 0
    /\ activeJobs <= Concurrency
    /\ Cardinality({e \in Executors : InProcessJob(e)}) <= activeJobs

C9_Witness ==
    /\ activeJobs = Concurrency
    /\ \A e \in Executors : pc[e] = "scan"
    /\ Len(queue) > 0

C3_DenseSeq ==
    \A j \in Jobs : \A i \in 1 .. Len(chunks[j]) : chunks[j][i].seq = i

\* The executor has finished job j after it observed its cancellation.
CancelObservedAndFinished(j) ==
    /\ atObserve[j] >= 0
    /\ \A e \in Executors : ejob[e] # j

\* C5: once a cancel request for a running job was answered and the executor
\* has observed it and finished (no store command having failed), the log
\* ends with the done chunk error="cancelled" and the status is cancelled.
C5_CancelledOutcome ==
    \A j \in Jobs :
        (cpc[j] = "r200" /\ CancelObservedAndFinished(j) /\ faultsLeft = MaxFaults) =>
            /\ meta[j] = StatusCancelled
            /\ chunks[j] # <<>>
            /\ chunks[j][Len(chunks[j])].done
            /\ chunks[j][Len(chunks[j])].error = "cancelled"

\* C6: after Cancel(id) the executor appends at most one more non-error
\* chunk, and none once it has observed the cancellation.
C6_CancelMonotonic ==
    \A j \in Jobs :
        /\ atCancel[j] >= 0 => Len(NonError(chunks[j])) <= atCancel[j] + 1
        /\ atObserve[j] >= 0 => Len(NonError(chunks[j])) = atObserve[j]

C6_Witness ==
    \E j \in Jobs :
        /\ cpc[j] = "r200"
        /\ atCancel[j] >= 0
        /\ Len(NonError(chunks[j])) = atCancel[j] + 1
        /\ atObserve[j] = atCancel[j] + 1

ValidTransitions ==
    {<<StatusQueued, StatusRunning>>, <<StatusQueued, StatusFailed>>,
     <<StatusQueued, StatusCancelled>>, <<StatusRunning, StatusCompleted>>,
     <<StatusRunning, StatusFailed>>, <<StatusRunning, StatusCancelled>>}

\* C7: every change of the stored status of a created job is one of the
\* six valid transitions.
C7_ValidTransitions ==
    [][\A j \in Jobs :
          (meta[j] # NoMeta /\ meta'[j] # meta[j]) =>
              <<meta[j], meta'[j]>> \in ValidTransitions]_vars

\* The data frames among the frames written, in order.
DataFrames(fs) == SelectSeq(fs, LAMBDA f : f.kind = "data")

\* The stream of the request has ended with data: [DONE].
EndedWithDone == gpc = "end" /\ frames # <<>> /\ frames[Len(frames)] = DoneFrame

\* C2: when the stream has ended with data: [DONE], the client has received
\* one data frame for every chunk of the job's log, in seq order.
C2_AllChunksDelivered ==
    EndedWithDone =>
        /\ Len(DataFrames(frames)) = Len(chunks[TheJob])
        /\ \A i \in 1 .. Len(chunks[TheJob]) :
              DataFrames(frames)[i] = DataFrame(chunks[TheJob][i])

\* C4: every seq makes at most one data frame and the data frames are in
\* strictly increasing seq; feeding the list just processed once more adds
\* no frame, so a list followed by its replay yields the frames of one pass.
C4_AtMostOnce ==
    /\ \A i, k \in 1 .. Len(DataFrames(frames)) :
          i < k => DataFrames(frames)[i].seq < DataFrames(frames)[k].seq
    /\ gpc = "loop" =>
          StreamChunks(GwState(lastSeq, frames, FALSE), replayed).frames = frames

C4_Witness ==
    /\ passes = MaxPasses
    /\ Len(replayed) >= 2
    /\ Len(DataFrames(frames)) >= 2
    /\ \E i \in 1 .. Len(replayed) : replayed[i].seq = lastSeq

\* The chunks of a log with a seq above n, in the order of the log.
After(log, n) == SelectSeq(log, LAMBDA c : c.seq > n)

\* C11: the response to events?from_seq=N holds, in ascending seq order,
\* exactly the first min(cap, count) chunks of the log with seq > N, and
\* without from_seq it starts at the first chunk of the log.
C11_EventsFrom ==
    LET n == ParseFromSeq(evQuery)
        want == After(evLog, n)
    IN  /\ evResp = SubSeq(want, 1, min(ChunkCap, Len(want)))
        /\ \A i \in 1 .. Len(evResp) : evResp[i].seq > n
        /\ \A i, k \in 1 .. Len(evResp) : i < k => evResp[i].seq < evResp[k].seq
        /\ (evQuery = <<>> /\ evLog # <<>>) => evResp[1] = evLog[1]

\* The positions of the done chunks of a log.
DonePositions(log) == {i \in 1 .. Len(log) : log[i].done}

\* C12: a log has at most one chunk with done=true, and that chunk is the
\* last of the log.
C12_DoneIsLast ==
    \A j \in Jobs : DonePositions(chunks[j]) \subseteq {Len(chunks[j])}

C12_Witness ==
    \E j \in Jobs :
        /\ Len(chunks[j]) >= 2
        /\ chunks[j][Len(chunks[j])].done
        /\ j \in cancelled
        /\ \A e \in Executors : ejob[e] # j

\* C13: the log of a job whose stored status is completed has exactly one
\* chunk with done=true, and it is the last chunk.
C13_TerminalUniqueness ==
    \A j \in Jobs : meta[j] = StatusCompleted =>
        /\ Cardinality(DonePositions(chunks[j])) = 1
        /\ chunks[j][Len(chunks[j])].done

TerminalStatuses == {StatusCompleted, StatusFailed, StatusCancelled}

\* C14: a job whose stored status is terminal has a chunk with done=true in
\* its log, or an empty log.
C14_TerminalHasDone ==
    \A j \in Jobs : meta[j] \in TerminalStatuses =>
        (chunks[j] = <<>> \/ DonePositions(chunks[j]) # {})

\* C15: a step in which a poll of the Gateway fails (the failure budget of
\* the network shrinks or the retry delay grows) writes no frame, keeps the
\* stream open and in its poll loop, and leaves lastSeq unchanged; the
\* retry delay is doubled up to its maximum.
C15_PollFailureHidden ==
    [][(pollFailsLeft' < pollFailsLeft \/ retryDelay' > retryDelay) =>
          /\ frames' = frames
          /\ lastSeq' = lastSeq
          /\ gpc' = "loop"
          /\ retryDelay' = min(retryDelay * 2, RetryBackoffMaxMS)]_vars

C15_Witness ==
    /\ pollFailsLeft = 0
    /\ retryDelay = 4 * RetryBackoffInitMS
    /\ gpc = "loop"
    /\ lastSeq >= 1
    /\ Len(DataFrames(frames)) >= 1

RECURSIVE Concat(_)
\* The deltas of a log, concatenated in the order of the log.
Concat(log) == IF log = <<>> THEN "" ELSE Head(log).delta \o Concat(Tail(log))

\* The non-streaming request was answered with the chat.completion response.
AnsweredJson == gpc = "end" /\ Len(frames) = 1 /\ frames[1].kind = "json"

\* C17: the content of the single JSON response is the concatenation of the
\* deltas of all chunks of the job's log, and its finish_reason is that of
\* the log's done chunk.
C17_FullContent ==
    AnsweredJson =>
        /\ frames[1].content = Concat(chunks[TheJob])
        /\ DonePositions(chunks[TheJob]) # {} =>
              frames[1].finish = chunks[TheJob][Len(chunks[TheJob])].finish

\* The answer of a request that ran into its deadline.
TimeoutAnswer ==
    IF stream THEN Append(frames, ErrorFrame("timeout exceeded"))
    ELSE <<HttpError("504")>>

CompletedUncancelled(j) ==
    /\ meta[j] = StatusCompleted
    /\ j \notin cancelled
    /\ hpc[j] = "r200"
    /\ \A e \in Executors : ejob[e] # j

\* The log has one chunk per decoded record, in order, with the record's
\* content and done flag, and only the last record is done.
OneChunkPerRecord(j) ==
    /\ Len(chunks[j]) = Len(produced[j])
    /\ \A i \in 1 .. Len(produced[j]) :
          /\ chunks[j][i].delta = produced[j][i].delta
          /\ chunks[j][i].done = produced[j][i].done
          /\ chunks[j][i].error = ""
          /\ produced[j][i].done => i = Len(produced[j])

\* C18: every completed, never cancelled job has exactly one chunk per
\* valid record that the executor read from the body (blank and non-data
\* lines are no records), in the backend's order and with the record's
\* content, up to and including the first done record.
C18_OneChunkPerRecord ==
    \A j \in Jobs : CompletedUncancelled(j) => OneChunkPerRecord(j)

\* The log ends with the one synthetic chunk of a failure: done, with
\* finish_reason "error" and the error text msg, after the chunks that
\* carry no error.
EndsWithErrorChunk(log, msg) ==
    /\ log # <<>>
    /\ log[Len(log)] = ErrorChunk(log[Len(log)].seq, msg)
    /\ msg # ""
    /\ Len(NonError(log)) = Len(log) - 1

\* C19: when an executor returns from finishJobWithError after a failure
\* of the upstream call, the job's log ends with exactly one synthetic
\* error chunk, after all chunks appended before, and the status is failed.
C19_UpstreamFailure ==
    [][\A e \in Executors :
          (pc[e] = "fj_status" /\ pc'[e] = "release" /\ eerr[e] # "cancelled") =>
              /\ EndsWithErrorChunk(chunks'[ejob[e]], eerr[e])
              /\ meta'[ejob[e]] = StatusFailed]_vars

\* C20: every job in a terminal status that no executor is working on has
\* had SetTTL applied to its keys exactly once.
C20_TerminalHasTTL ==
    \A j \in Jobs :
        (meta[j] \in TerminalStatuses /\ \A e \in Executors : ejob[e] # j) => ttl[j] = 1

\* ------------------------------------------------ an id never created

\* An id that POST /jobs never generated.
OtherJob == TheJob + 1

\* POST /jobs/{id}/cancel for an id no POST /jobs created: Server.CancelJob
\* looks nothing up before Worker.Cancel and UpdateJobStatus.
UnknownCancel(j) == hpc[j] = "new" /\ CancelJob(j)

\* The one job as in SpecJob, and a client that asks for the cancellation
\* and for the events of an id that was never created.
NextUnknown ==
    \/ CreateJobStore(TheJob)
    \/ EnqueueRead(TheJob)
    \/ EnqueueSend(TheJob)
    \/ EnqueueCount(TheJob)
    \/ \E e \in Executors : run(e)
    \/ UnknownCancel(OtherJob)
    \/ ClientGetEvents(OtherJob)

SpecUnknown == InitJob /\ [][NextUnknown]_vars

\* C21: GET /jobs/{id}/events for an id that POST /jobs never created is
\* answered 404, whatever was requested before, a cancellation of that id
\* included.
C21_UnknownIs404 ==
    \A j \in Jobs :
        (hpc[j] = "new" /\ evJob = j /\ evpc = "done") => evCode = "404"

\* ------------------------------------------------ a second Worker replica

\* Worker.Cancel in another Worker replica behind the same load balancer:
\* cancelled[jobID] = true in that process's own map.
RCancel(j) ==
    /\ rcpc[j] = "none"
    /\ rcancelled' = rcancelled \cup {j}
    /\ atRCancel' = [atRCancel EXCEPT ![j] = Len(NonError(chunks[j]))]
    /\ rcpc' = [rcpc EXCEPT ![j] = "status"]
    /\ UNCHANGED <<storeVars, workerVars, execVars, handlerVars, envVars, histVars>>
    /\ UNCHANGED <<gpc, lastSeq, retryDelay, frames, gstatus, pollFailsLeft, replayed,
                   passes, nsVars, obsVars, pairVars, backoffVars>>

\* Server.CancelJob in that replica after Worker.Cancel: the status in the
\* shared store is written cancelled (200), or the store fails (500).
RCancelStatus(j) ==
    /\ rcpc[j] = "status"
    /\ \E ok \in StoreOutcomes :
        /\ Fault(ok)
        /\ meta' = IF ok THEN UpdateJobStatus(meta, j, StatusCancelled) ELSE meta
        /\ rcpc' = [rcpc EXCEPT ![j] = IF ok THEN "r200" ELSE "r500"]
    /\ UNCHANGED <<chunks, seqctr, ttl, workerVars, execVars, handlerVars, linesLeft,
                   histVars>>
    /\ UNCHANGED <<rcancelled, atRCancel>>
    /\ UNCHANGED <<gpc, lastSeq, retryDelay, frames, gstatus, pollFailsLeft, replayed,
                   passes, nsVars, obsVars, pairVars, backoffVars>>

\* POST /jobs/{id}/cancel routed to the other replica by the client that
\* was answered 200 with the job's id.
RemoteCancel(j) ==
    /\ hpc[j] = "r200"
    /\ RCancel(j) \/ RCancelStatus(j)

\* The one job as in SpecJob, run by this replica; its cancellation is
\* handled by this replica or by the other one.
NextReplicas ==
    \/ CreateJobStore(TheJob)
    \/ EnqueueRead(TheJob)
    \/ EnqueueSend(TheJob)
    \/ EnqueueCount(TheJob)
    \/ \E e \in Executors : run(e)
    \/ ClientCancel(TheJob)
    \/ RemoteCancel(TheJob)

SpecReplicas == InitJob /\ [][NextReplicas]_vars

\* C22: after a cancel request was handled by another Worker replica on the
\* same store, the executor that runs the job appends at most one more
\* non-error chunk.
C22_AnyReplicaCancels ==
    \A j \in Jobs :
        atRCancel[j] >= 0 => Len(NonError(chunks[j])) <= atRCancel[j] + 1

\* ------------------------------------------------ the end of a stream

\* The log holds a chunk with a non-empty error.
HasErrorChunk(log) == \E i \in 1 .. Len(log) : log[i].error # ""

\* Positions of data: [DONE] in the frames written.
DoneFramePositions(fs) == {i \in 1 .. Len(fs) : fs[i] = DoneFrame}

\* C23: when the job's log holds a chunk with an error, data: [DONE] has
\* not been written to the stream, and a stream that has ended has ended
\* with an SSE error frame.
C23_ErrorChunkNoDone ==
    HasErrorChunk(chunks[TheJob]) =>
        /\ DoneFramePositions(frames) = {}
        /\ gpc = "end" => (frames # <<>> /\ frames[Len(frames)].kind = "error")

C23_Witness ==
    /\ gpc = "end"
    /\ HasErrorChunk(chunks[TheJob])
    /\ Len(frames) >= 2
    /\ frames[1].kind = "data"
    /\ frames[Len(frames)] = ErrorFrame(chunks[TheJob][Len(chunks[TheJob])].error)

\* Positions of the terminators, data: [DONE] or an SSE error frame, in the
\* frames written.
Terminators(fs) == {i \in 1 .. Len(fs) : fs[i].kind \in {"done", "error"}}

\* The response is a stream: it was not answered with a plain HTTP error.
IsStream(fs) == \A i \in 1 .. Len(fs) : fs[i].kind # "http"

\* C24: a streaming response has at most one terminator, nothing follows
\* it, and the response has ended exactly when the terminator is written.
C24_OneTerminator ==
    IsStream(frames) =>
        /\ Cardinality(Terminators(frames)) <= 1
        /\ Terminators(frames) \subseteq {Len(frames)}
        /\ gpc = "end" <=> Terminators(frames) # {}

\* The status completed seen without a done chunk in the log.
C24_Witness ==
    /\ EndedWithDone
    /\ meta[TheJob] = StatusCompleted
    /\ DonePositions(chunks[TheJob]) = {}
    /\ Len(DataFrames(frames)) = Len(chunks[TheJob])
    /\ Len(frames) >= 2

\* C25: a successful poll whose chunks did not end the stream is followed
\* by data: [DONE] and the end on status completed, by the SSE error frame
\* "job failed" or "job cancelled" and the end on failed or cancelled, and
\* by nothing but the next poll on queued or running.
C25_StatusAfterChunks ==
    [][(gpc = "events" /\ gpc' # "events" /\ faultsLeft' = faultsLeft) =>
          LET g == StreamChunks(GwState(lastSeq, frames, FALSE),
                                GetChunks(chunks[TheJob], lastSeq))
          IN  ~g.term =>
                /\ gstatus = StatusCompleted =>
                      (frames' = Append(g.frames, DoneFrame) /\ gpc' = "end")
                /\ gstatus = StatusFailed =>
                      (frames' = Append(g.frames, ErrorFrame("job failed")) /\ gpc' = "end")
                /\ gstatus = StatusCancelled =>
                      (frames' = Append(g.frames, ErrorFrame("job cancelled"))
                       /\ gpc' = "end")
                /\ gstatus \in {StatusQueued, StatusRunning} =>
                      (frames' = g.frames /\ gpc' = "loop")]_vars

\* The status cancelled ended a stream that had delivered a chunk.
C25_Witness ==
    /\ gpc = "end"
    /\ Len(frames) >= 2
    /\ frames[Len(frames) - 1].kind = "data"
    /\ frames[Len(frames)] = ErrorFrame("job cancelled")

\* ------------------------------------------------ cancelled while queued

\* C26: for a job whose cancellation was answered while its id was still in
\* the FIFO, the executor that dequeues it does not write the status running
\* over cancelled and does not open the upstream call.
C26_CancelledQueuedNeverRuns ==
    \A e \in Executors :
        ejob[e] \in cancelledQueued =>
            pc[e] \in {"activate", "getmeta", "setrunning", "release"}

\* ------------------------------------------------ events as a snapshot

\* C27: a response of GET /jobs/{id}/events that reports the status
\* completed or failed holds the first chunks, up to the cap, of all the
\* chunks the job's log has with a seq above from_seq.
C27_TerminalSnapshot ==
    (evpc = "done" /\ evCode = "200" /\ evStatus \in {StatusCompleted, StatusFailed}) =>
        LET want == After(chunks[evJob], ParseFromSeq(evQuery))
        IN  evResp = SubSeq(want, 1, min(ChunkCap, Len(want)))

\* A response with the status completed that was cut at the cap.
C27_Witness ==
    /\ evpc = "done"
    /\ evCode = "200"
    /\ evStatus = StatusCompleted
    /\ Len(evResp) = ChunkCap
    /\ Len(chunks[evJob]) > ChunkCap

\* ------------------------------------- the two handlers on the same polls

\* GET /jobs/{id}/events of one poll, storage.GetJobMeta: the status is read.
\* The response of the poll is given to handleStreamingChat and to
\* handleNonStreamingChat, each as far as it has not returned.
PairMeta(j) ==
    /\ hpc[j] = "r200"
    /\ gpc = "loop" \/ ~nsEnded
    /\ gstatus = ""
    /\ meta[j] # NoMeta
    /\ gstatus' = meta[j]
    /\ UNCHANGED <<storeVars, workerVars, execVars, handlerVars, envVars, histVars>>
    /\ UNCHANGED <<gpc, lastSeq, retryDelay, frames, pollFailsLeft, replayed, passes,
                   nsVars, obsVars, auxVars>>

\* storage.GetChunks of that poll and the response, processed by the chunk
\* loop and the status check of either handler.
PairChunks(j) ==
    /\ gstatus # ""
    /\ LET cs == GetChunks(chunks[j], IF gpc = "loop" THEN lastSeq ELSE nsLastSeq)
           g == StreamStatus(StreamChunks(GwState(lastSeq, frames, FALSE), cs), gstatus)
           n == NSStatus(NSChunks(NSState(nsLastSeq, fullContent, finishReason,
                                          nsAnswer, FALSE, FALSE), cs), gstatus)
       IN  /\ IF gpc = "loop"
                THEN /\ lastSeq' = g.lastSeq
                     /\ frames' = g.frames
                     /\ gpc' = IF g.term THEN "end" ELSE "loop"
                ELSE UNCHANGED <<gpc, lastSeq, frames>>
           /\ IF ~nsEnded
                THEN /\ nsLastSeq' = n.lastSeq
                     /\ fullContent' = n.content
                     /\ finishReason' = n.finish
                     /\ nsAnswer' = n.frames
                     /\ nsEnded' = n.term
                ELSE UNCHANGED <<nsLastSeq, fullContent, finishReason, nsAnswer, nsEnded>>
    /\ gstatus' = ""
    /\ UNCHANGED <<storeVars, workerVars, execVars, handlerVars, envVars, histVars>>
    /\ UNCHANGED <<retryDelay, pollFailsLeft, replayed, passes, stream, obsVars,
                   replicaVars, backoffVars>>

\* The one job as in SpecJob, no store command failing, and the responses
\* of its polls given to both handlers.
InitPair ==
    /\ InitWorker
    /\ InitGateway("loop")
    /\ stream = TRUE
    /\ pollFailsLeft = 0
    /\ linesLeft = [j \in Jobs |-> IF j = TheJob THEN MaxLines ELSE 0]
    /\ faultsLeft = 0

NextPair ==
    \/ CreateJobStore(TheJob)
    \/ EnqueueRead(TheJob)
    \/ EnqueueSend(TheJob)
    \/ EnqueueCount(TheJob)
    \/ \E e \in Executors : run(e)
    \/ ClientCancel(TheJob)
    \/ PairMeta(TheJob)
    \/ PairChunks(TheJob)

SpecPair == InitPair /\ [][NextPair]_vars

RECURSIVE FrameDeltas(_)
\* The delta.content of the data frames written, concatenated.
FrameDeltas(fs) ==
    IF fs = <<>> THEN ""
    ELSE (IF Head(fs).kind = "data" /\ Head(fs).content # NoContent
            THEN Head(fs).content ELSE "") \o FrameDeltas(Tail(fs))

\* Both handlers have returned.
BothEnded == gpc = "end" /\ nsEnded

\* C28: fed the same polls, the non-streaming handler answers 200 exactly
\* when the stream ends with data: [DONE], with the concatenation of the
\* streamed deltas for content, and answers an error exactly when the stream
\* ends with an SSE error frame.
C28_SameOutcome ==
    BothEnded =>
        /\ nsAnswer[1].kind = "json" <=> frames[Len(frames)] = DoneFrame
        /\ nsAnswer[1].kind = "json" => nsAnswer[1].content = FrameDeltas(frames)
        /\ nsAnswer[1].kind = "http" <=> frames[Len(frames)].kind = "error"

\* ------------------------------------------------ admission under load

\* activeJobs + len(queue) as Enqueue would read it now.
LoadNow == activeJobs + Len(queue)

\* C29: Enqueue fails only if activeJobs + len(queue) was at least
\* maxQueueSize when it read the load or is so when it tries to send; if
\* the load is below maxQueueSize at both moments, the id is appended to the
\* FIFO and the call succeeds.
C29_RejectOnlyOverloaded ==
    [][\A j \in Jobs :
          (hpc[j] = "send" /\ hpc'[j] # "send") =>
              /\ hpc'[j] = "reject" =>
                    (hload[j] >= maxQueueSize \/ LoadNow >= maxQueueSize)
              /\ (hload[j] < maxQueueSize /\ LoadNow < maxQueueSize) =>
                    (hpc'[j] = "count" /\ queue' = Append(queue, j))]_vars

\* A request rejected on the full channel after it had read a load below
\* maxQueueSize, next to a request that was accepted.
C29_Witness ==
    \E j, k \in Jobs :
        /\ hpc[j] \in {"reject", "r429"}
        /\ hload[j] < maxQueueSize
        /\ hpc[k] = "r200"
        /\ hload[k] < maxQueueSize

\* C30: a request inside Worker.Enqueue can always take its next step,
\* whatever the executors are doing and however full the FIFO is: it never
\* waits for an executor.
C30_AdmissionNeverWaits ==
    \A j \in Jobs :
        /\ hpc[j] = "enqueue" => ENABLED EnqueueRead(j)
        /\ hpc[j] = "send" => ENABLED EnqueueSend(j)
        /\ hpc[j] = "count" => ENABLED EnqueueCount(j)

\* Every executor is blocked reading its upstream body, an id waits in the
\* FIFO, and an Enqueue call has returned the overload error.
C30_Witness ==
    /\ \A e \in Executors : pc[e] = "scan"
    /\ queue # <<>>
    /\ \E j \in Jobs : hpc[j] = "reject" /\ hload[j] >= maxQueueSize

\* ------------------------------------------------ retry backoff

RECURSIVE Pow2(_)
Pow2(n) == IF n = 0 THEN 1 ELSE 2 * Pow2(n - 1)

\* C31: after k failed polls in a row the retry delay, which is what the
\* Gateway sleeps on failure k+1, is min(RetryBackoffInitMS * 2^k,
\* RetryBackoffMaxMS); with no failure since the start of the request or
\* since the last successful poll it is RetryBackoffInitMS.
C31_BackoffDelay ==
    retryDelay = min(RetryBackoffInitMS * Pow2(failStreak), RetryBackoffMaxMS)

\* The delay has reached the maximum on the sixth failure in a row and has
\* stayed there on the seventh.
C31_Witness ==
    /\ failStreak = 7
    /\ retryDelay = RetryBackoffMaxMS
    /\ gpc = "loop"

\* ------------------------------------------------ the end of the loop

\* The request has ended on ctx.Done(): the deadline or the client's leave.
TimedOut ==
    /\ gpc = "end"
    /\ frames # <<>>
    /\ frames[Len(frames)] \in {ErrorFrame("timeout exceeded"), HttpError("504")}

\* C32: the step in which the Gateway's loop ends on the deadline or on the
\* client's disconnect changes neither the job's status, its chunk log, its
\* sequence counter and expiry, nor the Worker's cancellation registry, FIFO
\* and executors: the executor goes on with the job as before.
C32_GatewayNeverCancels ==
    [][(gpc = "loop" /\ TimedOut') =>
          UNCHANGED <<meta, chunks, seqctr, ttl, cancelled, queue, execVars>>]_vars

\* The request ended on its deadline before any chunk was delivered, and
\* the executor has gone on to complete the job.
C32_Witness ==
    /\ TimedOut
    /\ lastSeq = -1
    /\ chunks[TheJob] # <<>>
    /\ meta[TheJob] = StatusCompleted
    /\ cancelled = {}

\* ------------------------------------------------ the form of a chunk

\* finish_reason is set exactly on done chunks, it is "error" exactly on the
\* chunks with an error, and an error is only on done chunks.
WellFormed(c) ==
    /\ c.finish # "" <=> c.done
    /\ c.finish = "error" <=> c.error # ""
    /\ c.error # "" => c.done

\* C33: a log only changes by one chunk appended to it, and that chunk is
\* well formed; appended by processJob for a backend record it has no
\* error, the record's done, and on done the finish_reason "length" for
\* the done_reason "length" and "stop" otherwise; appended by
\* finishJobWithError it has the finish_reason "error".
C33_ChunksWellFormed ==
    [][\A j \in Jobs :
          chunks'[j] # chunks[j] =>
              LET c == chunks'[j][Len(chunks'[j])]
              IN  /\ chunks'[j] = Append(chunks[j], c)
                  /\ WellFormed(c)
                  /\ \A e \in Executors :
                        (ejob[e] = j /\ pc[e] = "add") =>
                            /\ c.error = ""
                            /\ c.done = eline[e].done
                            /\ c.done => c.finish = (IF eline[e].reason = "length"
                                                       THEN "length" ELSE "stop")
                  /\ \A e \in Executors :
                        (ejob[e] = j /\ pc[e] = "fj_add") =>
                            (c.finish = "error" /\ c.error = eerr[e])]_vars

\* A log with a chunk that is not done, followed by the synthetic chunk of
\* a failure or by a done chunk cut for length.
C33_Witness ==
    \E j \in Jobs :
        /\ Len(chunks[j]) >= 2
        /\ ~chunks[j][1].done
        /\ chunks[j][1].finish = ""
        /\ chunks[j][Len(chunks[j])].finish \in {"length", "error"}

\* ------------------------------------------------ store failures

\* A store command of this step has failed.
StoreFailed == faultsLeft' < faultsLeft

\* The step is one of executor e.
StepOf(e) == pc'[e] # pc[e]

\* C34: when IncrSeq or AddChunk fails for a record, the executor writes no
\* status and no error chunk for that reason: after a failed IncrSeq it
\* reads the next line, and after a failed AddChunk it reads the next line
\* or, the record being the done record, goes on to complete the job.
C34_WriteFailureGoesOn ==
    [][\A e \in Executors :
          /\ (pc[e] = "incr" /\ StepOf(e) /\ StoreFailed) =>
                (pc'[e] = "scan" /\ eerr'[e] = eerr[e] /\ UNCHANGED <<meta, chunks>>)
          /\ (pc[e] = "add" /\ StepOf(e) /\ StoreFailed) =>
                /\ pc'[e] = (IF eline[e].done THEN "complete" ELSE "scan")
                /\ eerr'[e] = eerr[e]
                /\ UNCHANGED <<meta, chunks>>]_vars

\* A job that ended completed with fewer chunks than the records the
\* executor decoded: a write for a record had failed.
C34_Witness ==
    \E j \in Jobs :
        /\ faultsLeft < MaxFaults
        /\ meta[j] = StatusCompleted
        /\ Len(chunks[j]) < Len(produced[j])
        /\ chunks[j] # <<>>
        /\ \A e \in Executors : pc[e] = "recv"

\* C35: when GetJobMeta or the write of the status running fails, the
\* executor leaves processJob at once, with the store as it was; and the
\* executor that leaves processJob decrements activeJobs and waits for the
\* next id.
C35_AbandonOnFailure ==
    [][\A e \in Executors :
          /\ (pc[e] \in {"getmeta", "setrunning"} /\ StepOf(e) /\ StoreFailed) =>
                (pc'[e] = "release" /\ UNCHANGED <<meta, chunks, seqctr, ttl>>)
          /\ (pc[e] = "release" /\ pc'[e] # "release") =>
                (pc'[e] = "recv" /\ activeJobs' = activeJobs - 1)]_vars

\* The abandoned job: accepted, never opened, nothing written, and the
\* executor free again.
C35_Witness ==
    \E j \in Jobs :
        /\ faultsLeft < MaxFaults
        /\ hpc[j] = "r200"
        /\ meta[j] = StatusQueued
        /\ chunks[j] = <<>>
        /\ seqctr[j] = 0
        /\ queue = <<>>
        /\ activeJobs = 0
        /\ \A e \in Executors : pc[e] = "recv"

\* ------------------------------------------------ no accepted job is lost

\* The one job, cancelled or not, with no store command failing and every
\* executor scheduled fairly. The upstream body ends: it has at most
\* MaxLines lines and client.Do and scanner.Scan return.
InitLive ==
    /\ InitWorker
    /\ InitGateway("off")
    /\ stream = TRUE
    /\ pollFailsLeft = 0
    /\ linesLeft = [j \in Jobs |-> IF j = TheJob THEN MaxLines ELSE 0]
    /\ faultsLeft = 0

FairLive == \A e \in Executors : WF_vars(run(e))

SpecLive == InitLive /\ [][NextJob]_vars /\ FairLive

\* Enqueue has put the id of job j on the channel.
InFifoOrTaken(j) == hpc[j] \in {"count", "r200"}

\* Job j has a terminal status and no executor holds it any more.
Settled(j) ==
    /\ meta[j] \in TerminalStatuses
    /\ \A e \in Executors : ejob[e] # j /\ pc[e] = "recv"
    /\ activeJobs = 0
    /\ \A i \in 1 .. Len(queue) : queue[i] # j

InQueue(j) == Cardinality({i \in 1 .. Len(queue) : queue[i] = j})

====
